---- MODULE Spec2Model ----
(***************************************************************************)
(* A model of the semconv processor: the configuration and its Validate,   *)
(* the construction of the processor (newSemconvProcessor / compileRules), *)
(* and processTraces / processSpan, the evaluation of the compiled rules   *)
(* over every span of a batch.                                             *)
(*                                                                         *)
(* The OTTL parser and evaluator are an external library.  A rule's        *)
(* condition, operation_name and operation_type are kept as the strings    *)
(* of the configuration; ParseCondition / ParseValueExpression accept the  *)
(* expressions listed below and ConditionEval / ValueEval give each its    *)
(* outcome on a span: a value, or a runtime error.                         *)
(*                                                                         *)
(* The three attribute keys of the configuration are pairwise distinct in  *)
(* every configuration the model starts from.                              *)
(***************************************************************************)
EXTENDS Integers, Sequences, FiniteSets, TLC

\* ------------------------------------------------------------- bounds

\* the longest rule list of a configuration
MaxRules == 2
\* the most spans of a batch
MaxSpans == 1
\* the most batches handed to one processor one after another
MaxBatches == 2
\* the longest path handed to NormalizePath, in characters
MaxPathLen == 4
\* the most getters handed to FirstNonNil
MaxGetters == 3

\* ------------------------------------------------------------- values

\* ProcessingMode constants (config.go)
ModeEnrich == "enrich"
ModeEnforce == "enforce"

\* the untyped nil an OTTL getter returns, and a string value
Nil == [t |-> "nil"]
Str(s) == [t |-> "str", s |-> s]

\* fmt.Sprintf("%v", v): a string prints as itself, nil prints as <nil>
Sprintf(v) == IF v.t = "nil" THEN "<nil>" ELSE v.s

\* pcommon.Map: a function from the keys present to their string values
EmptyMap == [k \in {} |-> ""]
Get(attrs, k) == [exists |-> k \in DOMAIN attrs,
                  value |-> IF k \in DOMAIN attrs THEN attrs[k] ELSE ""]
\* a slip: putting a key empties the map first
PutStrClears(attrs, k, v) == [x \in {k} |-> v]
PutStr(attrs, k, v) == [x \in (DOMAIN attrs) \cup {k} |-> IF x = k THEN v ELSE attrs[x]]

\* a slip: the unspecified kind has no name a filter could list
getSpanKindStringUnnamed(kind) ==
    CASE kind = "SpanKindInternal"    -> "internal"
      [] kind = "SpanKindServer"      -> "server"
      [] kind = "SpanKindClient"      -> "client"
      [] kind = "SpanKindProducer"    -> "producer"
      [] kind = "SpanKindConsumer"    -> "consumer"
      [] OTHER                        -> ""

\* ptrace.SpanKind -> the string the span_kind filter is compared with
getSpanKindString(kind) ==
    CASE kind = "SpanKindUnspecified" -> "unspecified"
      [] kind = "SpanKindInternal"    -> "internal"
      [] kind = "SpanKindServer"      -> "server"
      [] kind = "SpanKindClient"      -> "client"
      [] kind = "SpanKindProducer"    -> "producer"
      [] kind = "SpanKindConsumer"    -> "consumer"
      [] OTHER                        -> "unspecified"

\* ------------------------------------------------------------- OTTL

\* the condition expressions of the model
CondTrue == "true"
CondNameIsX == "name == x"
CondFailsOnA == "Int(name) == 0"
\* the value expressions of the model
ValLitA == "lit A"
ValLitB == "lit B"
ValLitC == "lit C"
ValLitHttp == "lit http"
ValName == "name"
ValMissingAttr == "attributes[rpc.system]"
ValFails == "ParseJSON(name)"

ConditionExprs == {CondTrue, CondNameIsX, CondFailsOnA}
ValueExprs == {ValLitA, ValLitB, ValLitC, ValLitHttp, ValName, ValMissingAttr, ValFails}

\* parser.ParseCondition / parser.ParseValueExpression: ok, or a parse error
ParseCondition(text) == [err |-> text \notin ConditionExprs, expr |-> text]
ParseValueExpression(text) == [err |-> text \notin ValueExprs, expr |-> text]

\* rule.Condition.Eval(ctx, tCtx): (matches, err)
ConditionEval(expr, span) ==
    CASE expr = CondTrue      -> [err |-> FALSE, matches |-> TRUE]
      [] expr = CondNameIsX   -> [err |-> FALSE, matches |-> span.name = "x"]
      [] expr = CondFailsOnA  -> [err |-> span.name = "A", matches |-> span.name # "A"]
      [] OTHER                -> [err |-> TRUE, matches |-> FALSE]

\* rule.OperationName.Eval(ctx, tCtx) / rule.OperationType.Eval: (value, err)
ValueEval(expr, span) ==
    CASE expr = ValLitA        -> [err |-> FALSE, val |-> Str("A")]
      [] expr = ValLitB        -> [err |-> FALSE, val |-> Str("B")]
      [] expr = ValLitC        -> [err |-> FALSE, val |-> Str("C")]
      [] expr = ValLitHttp     -> [err |-> FALSE, val |-> Str("http")]
      [] expr = ValName        -> [err |-> FALSE, val |-> Str(span.name)]
      [] expr = ValMissingAttr -> [err |-> FALSE,
                                   val |-> IF "rpc.system" \in DOMAIN span.attrs
                                           THEN Str(span.attrs["rpc.system"]) ELSE Nil]
      [] OTHER                 -> [err |-> TRUE, val |-> Nil]

\* ------------------------------------------------------------- state

VARIABLES
    cfg,            \* the *Config the host holds
    declared,       \* the rule ids in the order the configuration declared them
    validated,      \* "no", "ok" or "error": the outcome of cfg.Validate()
    phase,          \* "config", "ready" (processor built), "failed", "done", "crashed",
                    \* "redone" (the batch returned was processed again)
    compiledRules,  \* sp.compiledRules
    spanNameCount,  \* sp.spanNameCount
    operationCount, \* sp.operationCount
    telemetry,      \* the instruments of the TelemetryBuilder
    input,          \* the batch as it was handed to processTraces
    td,             \* the batch processTraces returned
    hits,           \* per span of the batch: the index of the rule the loop stopped on, 0 if none
    call,           \* an OTTL function called on its own: the function and its argument
    result,         \* what that call returned
    workers,        \* the goroutines inside processSpan at the same time, each with its position
    startupErr      \* the error newSemconvProcessor returned: the rule id it names, "" for none

vars == <<cfg, declared, validated, phase, compiledRules, spanNameCount,
          operationCount, telemetry, input, td, hits, call, result, workers, startupErr>>

\* ------------------------------------------------------------- configuration

\* an OTTLRule (SpanKind is the span_kind list compileRules copies)
Rule(id, priority, kinds, condition, name, type) ==
    [ID |-> id, Priority |-> priority, SpanKind |-> kinds,
     Condition |-> condition, OperationName |-> name, OperationType |-> type]

\* the rules a configuration draws from
RulePool ==
    << Rule("fallback", 2, << >>,         CondTrue,     ValLitA,  ""),
       Rule("server",   1, <<"server">>,  CondTrue,     ValLitB,  ValLitHttp),
       Rule("byname",   1, << >>,         CondNameIsX,  ValLitC,  ValMissingAttr),
       Rule("broken",   1, << >>,         CondFailsOnA, ValFails, "") >>

\* the sequences of distinct pool rules, of length 0 .. MaxRules
RuleLists ==
    UNION { { [i \in 1..n |-> RulePool[f[i]]] :
                f \in { g \in [1..n -> 1..Len(RulePool)] :
                          \A a, b \in 1..n : a # b => g[a] # g[b] } } :
            n \in 0..MaxRules }

Modes == {"", ModeEnrich, ModeEnforce}

Configs ==
    [ Enabled : BOOLEAN,
      Benchmark : BOOLEAN,
      SpanProcessing :
        [ Enabled : BOOLEAN,
          Mode : Modes,
          OperationNameAttribute : {"operation.name"},
          OperationTypeAttribute : {"operation.type"},
          PreserveOriginalName : BOOLEAN,
          OriginalNameAttribute : {"span.name.original"},
          Rules : RuleLists ] ]

\* sort.Slice(rules, less) with less(i, j) = rules[i].Priority < rules[j].Priority.
\* sort.Slice is not a stable sort: every arrangement of the rules in which no
\* rule is followed by one of lower priority is a possible outcome.
SortSlice(rules) ==
    LET n == Len(rules)
        perms == { g \in [1..n -> 1..n] : \A a, b \in 1..n : a # b => g[a] # g[b] }
    IN  { [i \in 1..n |-> rules[g[i]]] :
            g \in { h \in perms :
                      \A i, j \in 1..n : i < j => ~(rules[h[j]].Priority < rules[h[i]].Priority) } }

\* a slip: the seenIDs check is left out
RuleCheckFailsUnseen(rules) ==
    \E i \in 1..Len(rules) :
        \/ rules[i].ID = ""
        \/ rules[i].Condition = ""
        \/ rules[i].OperationName = ""

\* the loop of SpanProcessingConfig.Validate over the rules: TRUE when it returns an error
RuleCheckFails(rules) ==
    \E i \in 1..Len(rules) :
        \/ rules[i].ID = ""
        \/ \E j \in 1..(i-1) : rules[j].ID = rules[i].ID
        \/ rules[i].Condition = ""
        \/ rules[i].OperationName = ""

\* (sp *SpanProcessingConfig) Validate(): the possible outcomes, each the error
\* flag and the configuration as Validate leaves it
SpanProcessingValidate(sp) ==
    IF sp.Mode \notin {ModeEnrich, ModeEnforce, ""}
    THEN { [err |-> TRUE, sp |-> sp] }
    ELSE LET d == [sp EXCEPT
                     !.Mode = IF sp.Mode = "" THEN ModeEnrich ELSE sp.Mode,
                     !.OperationNameAttribute =
                        IF sp.OperationNameAttribute = "" THEN "operation.name"
                        ELSE sp.OperationNameAttribute,
                     !.OperationTypeAttribute =
                        IF sp.OperationTypeAttribute = "" THEN "operation.type"
                        ELSE sp.OperationTypeAttribute,
                     !.OriginalNameAttribute =
                        IF sp.OriginalNameAttribute = "" THEN "span.name.original"
                        ELSE sp.OriginalNameAttribute]
         IN  IF Len(d.Rules) = 0 \/ RuleCheckFails(d.Rules)
             THEN { [err |-> TRUE, sp |-> d] }
             ELSE { [err |-> FALSE, sp |-> [d EXCEPT !.Rules = r]] : r \in SortSlice(d.Rules) }

\* (cfg *Config) Validate()
ConfigValidate(c) ==
    IF c.SpanProcessing.Enabled
    THEN { [err |-> o.err, cfg |-> [c EXCEPT !.SpanProcessing = o.sp]] :
             o \in SpanProcessingValidate(c.SpanProcessing) }
    ELSE { [err |-> FALSE, cfg |-> c] }

\* ------------------------------------------------------------- telemetry

Telemetry0 ==
    [ spansProcessed |-> 0,              \* ProcessorSemconvSpansProcessed{signal_type=traces}
      spanNamesEnforced |-> << >>,       \* ProcessorSemconvSpanNamesEnforced: one label set per Add
      uniqueSpanNamesTotal |-> 0,        \* ProcessorSemconvUniqueSpanNamesTotal
      uniqueOperationNamesTotal |-> 0,   \* ProcessorSemconvUniqueOperationNamesTotal
      originalSpanNameCount |-> << >>,   \* ProcessorSemconvOriginalSpanNameCount: the values recorded
      reducedSpanNameCount |-> << >>,    \* ProcessorSemconvReducedSpanNameCount: the values recorded
      durationRecords |-> 0,             \* ProcessorSemconvProcessingDuration: number of Record calls
      errors |-> 0 ]                     \* ProcessorSemconvErrors

\* ------------------------------------------------------------- batches

\* the attributes a span arrives with: none, an operation type set upstream, or
\* an operation name and type set upstream
NoAttrs == EmptyMap
TypeSet == [k \in {"operation.type"} |-> "pre-existing-type"]
NameAndTypeSet ==
    [k \in {"operation.name", "operation.type"} |->
        IF k = "operation.name" THEN "pre-existing-operation" ELSE "pre-existing-type"]

\* the spans a batch is made of
InputSpans ==
    [ name : {"A", "x"}, kind : {"SpanKindServer"}, attrs : {NoAttrs, TypeSet} ]
    \cup
    [ name : {"A", "x"}, kind : {"SpanKindClient"}, attrs : {NoAttrs, NameAndTypeSet} ]

ResourceAttrs == [k \in {"service.name"} |-> "svc"]
ScopeAttrs == [k \in {"scope.name"} |-> "lib"]

\* ptrace.Traces: resource groups of scope groups of spans.  AppendTo adds one
\* span to a batch, opening a new resource group, a new scope group of the last
\* resource group, or extending the last scope group.
AppendTo(b, mark, span) ==
    LET newScope == [scope |-> ScopeAttrs, spans |-> <<span>>]
        r == Len(b)
    IN  IF mark = "resource" \/ r = 0
        THEN Append(b, [resource |-> ResourceAttrs, scopeSpans |-> <<newScope>>])
        ELSE IF mark = "scope"
        THEN [b EXCEPT ![r].scopeSpans = Append(@, newScope)]
        ELSE [b EXCEPT ![r].scopeSpans[Len(b[r].scopeSpans)].spans = Append(@, span)]

RECURSIVE Build(_, _, _)
Build(spans, marks, k) ==
    IF k = 0 THEN << >> ELSE AppendTo(Build(spans, marks, k - 1), marks[k], spans[k])

\* the batches handed to processTraces: up to MaxSpans spans, grouped in every way
Batches ==
    UNION { { Build(s, m, n) : s \in [1..n -> InputSpans],
                               m \in [1..n -> {"resource", "scope", "span"}] } :
            n \in 0..MaxSpans }

\* the positions <<i, j, k>> of the spans of a batch, and the span at a position
Positions(b) ==
    UNION { UNION { { <<i, j, k>> : k \in 1..Len(b[i].scopeSpans[j].spans) } :
                    j \in 1..Len(b[i].scopeSpans) } :
            i \in 1..Len(b) }
SpanAt(b, p) == b[p[1]].scopeSpans[p[2]].spans[p[3]]

\* ------------------------------------------------------------- processor

\* len(m) of a Go map, and m[k]++ (a missing key counts from zero)
Incr(m, k) == [x \in (DOMAIN m) \cup {k} |-> IF x = k THEN (IF k \in DOMAIN m THEN m[k] ELSE 0) + 1 ELSE m[x]]

\* a slip: a rule that does not parse is left out and the others are kept
compileRulesSkipsBad(rules) ==
    LET bad(r) == \/ ParseCondition(r.Condition).err
                  \/ ParseValueExpression(r.OperationName).err
                  \/ (r.OperationType # "" /\ ParseValueExpression(r.OperationType).err)
        good(r) == ~bad(r)
    IN  [err |-> FALSE, rule |-> "", rules |-> SelectSeq(rules, good)]

\* compileRules: the compiled rules in the order of sp.config.SpanProcessing.Rules,
\* or the error of the first expression that does not parse
compileRules(rules) ==
    LET bad(r) == \/ ParseCondition(r.Condition).err
                  \/ ParseValueExpression(r.OperationName).err
                  \/ (r.OperationType # "" /\ ParseValueExpression(r.OperationType).err)
    IN  IF \E i \in 1..Len(rules) : bad(rules[i])
        THEN [err |-> TRUE, rules |-> << >>,
              rule |-> rules[CHOOSE i \in 1..Len(rules) :
                                bad(rules[i]) /\ \A j \in 1..(i - 1) : ~bad(rules[j])].ID]
        ELSE [err |-> FALSE, rule |-> "",
              rules |-> [i \in 1..Len(rules) |->
                           [ID |-> rules[i].ID, Priority |-> rules[i].Priority,
                            SpanKind |-> rules[i].SpanKind,
                            Condition |-> ParseCondition(rules[i].Condition).expr,
                            OperationName |-> ParseValueExpression(rules[i].OperationName).expr,
                            OperationType |-> rules[i].OperationType]]]

\* the span kind restriction of a rule (processSpan, the loop over rule.SpanKind)
spanKindMatches(rule, span) ==
    \E a \in 1..Len(rule.SpanKind) : rule.SpanKind[a] = getSpanKindString(span.kind)

\* the operation type a rule produces for a span: "" when the rule has none or it fails
operationTypeOf(rule, span) ==
    IF rule.OperationType # ""
    THEN LET t == ValueEval(rule.OperationType, span)
         IN  IF ~t.err THEN Sprintf(t.val) ELSE ""
    ELSE ""

\* a slip: an operation type already on the span is overwritten
putOperationTypeOverwrites(attrs, operationType) ==
    IF operationType # ""
    THEN PutStr(attrs, cfg.SpanProcessing.OperationTypeAttribute, operationType)
    ELSE attrs

\* operation.type is set only if not already present and the type is not empty
putOperationType(attrs, operationType) ==
    IF operationType # "" /\ ~Get(attrs, cfg.SpanProcessing.OperationTypeAttribute).exists
    THEN PutStr(attrs, cfg.SpanProcessing.OperationTypeAttribute, operationType)
    ELSE attrs

\* a slip: the original name is kept whenever asked for, also when it is the new name
putOriginalNameAlways(attrs, originalName, operationName) ==
    IF cfg.SpanProcessing.PreserveOriginalName
    THEN PutStr(attrs, cfg.SpanProcessing.OriginalNameAttribute, originalName)
    ELSE attrs

\* enforce mode: the original name is kept when asked for and different
putOriginalName(attrs, originalName, operationName) ==
    IF cfg.SpanProcessing.PreserveOriginalName /\ originalName # operationName
    THEN PutStr(attrs, cfg.SpanProcessing.OriginalNameAttribute, originalName)
    ELSE attrs

enforcedLabel(rule, operationType, mode) ==
    [rule_id |-> rule.ID, operation_type |-> operationType, mode |-> mode]

\* a slip in the enrich case: the span is renamed as well
enrichRenames(span, operationName, operationType) ==
    [span EXCEPT
       !.name = operationName,
       !.attrs = putOperationType(
                   PutStr(span.attrs, cfg.SpanProcessing.OperationNameAttribute, operationName),
                   operationType)]

\* processSpan, case ModeEnrich: "Only add attributes"
enrich(span, operationName, operationType) ==
    [span EXCEPT !.attrs =
        putOperationType(
          PutStr(span.attrs, cfg.SpanProcessing.OperationNameAttribute, operationName),
          operationType)]

\* a slip in the enforce case: span.SetName is left out
enforceKeepsName(span, operationName, operationType) ==
    [span EXCEPT !.attrs =
        putOperationType(
          putOriginalName(
            PutStr(span.attrs, cfg.SpanProcessing.OperationNameAttribute, operationName),
            span.name, operationName),
          operationType)]

\* processSpan, case ModeEnforce: the attribute, the original name, the span
\* name, the operation type
enforce(span, operationName, operationType) ==
    [span EXCEPT
       !.name = operationName,
       !.attrs = putOperationType(
                   putOriginalName(
                     PutStr(span.attrs, cfg.SpanProcessing.OperationNameAttribute, operationName),
                     span.name, operationName),
                   operationType)]

\* a slip: the enrich case leaves the counter alone
applyModeEnforceCounts(tel, span, rule, operationName, operationType) ==
    CASE cfg.SpanProcessing.Mode = ModeEnrich ->
            [span |-> enrich(span, operationName, operationType), tel |-> tel]
      [] cfg.SpanProcessing.Mode = ModeEnforce ->
            [span |-> enforce(span, operationName, operationType),
             tel |-> [tel EXCEPT !.spanNamesEnforced =
                         Append(@, enforcedLabel(rule, operationType, "enforce"))]]
      [] OTHER -> [span |-> span, tel |-> tel]

\* processSpan, "Apply based on mode": the span and the telemetry after the
\* switch, which has no default case
applyMode(tel, span, rule, operationName, operationType) ==
    CASE cfg.SpanProcessing.Mode = ModeEnrich ->
            [span |-> enrich(span, operationName, operationType),
             tel |-> [tel EXCEPT !.spanNamesEnforced =
                         Append(@, enforcedLabel(rule, operationType, "enrich"))]]
      [] cfg.SpanProcessing.Mode = ModeEnforce ->
            [span |-> enforce(span, operationName, operationType),
             tel |-> [tel EXCEPT !.spanNamesEnforced =
                         Append(@, enforcedLabel(rule, operationType, "enforce"))]]
      [] OTHER -> [span |-> span, tel |-> tel]

\* processSpan, "Track operation name for benchmark mode"
trackOperation(st, operationName) ==
    IF cfg.Benchmark
    THEN [st EXCEPT
            !.telemetry.uniqueOperationNamesTotal =
                IF operationName \notin DOMAIN st.operationCount THEN @ + 1 ELSE @,
            !.operationCount = Incr(@, operationName)]
    ELSE st

\* a slip: the unique counter is incremented on every observation
trackOriginalCountsAll(st, name) ==
    IF cfg.Benchmark
    THEN [st EXCEPT
            !.telemetry.uniqueSpanNamesTotal = @ + 1,
            !.spanNameCount = Incr(@, name)]
    ELSE st

\* processSpan, "Track original span name for benchmark mode"
trackOriginal(st, name) ==
    IF cfg.Benchmark
    THEN [st EXCEPT
            !.telemetry.uniqueSpanNamesTotal =
                IF name \notin DOMAIN st.spanNameCount THEN @ + 1 ELSE @,
            !.spanNameCount = Incr(@, name)]
    ELSE st

\* processSpan, the end of the loop body: the outcome of the switch is kept, the
\* operation name is tracked, and the loop stops on rule k ("First match wins")
firstMatch(st, applied, operationName, k) ==
    [st |-> trackOperation([st EXCEPT !.telemetry = applied.tel], operationName),
     span |-> applied.span,
     hit |-> k]

\* processSpan, the loop body after the operation name was produced
applyRule(st, span, rule, k, operationName) ==
    firstMatch(st,
               applyMode(st.telemetry, span, rule, operationName, operationTypeOf(rule, span)),
               operationName, k)

\* a slip: the span kind restriction is not looked at
kindAdmitsAny(rule, span) == TRUE

\* processSpan, "Check span kind restriction if specified": FALSE means continue
kindAdmits(rule, span) ==
    Len(rule.SpanKind) = 0 \/ spanKindMatches(rule, span)

\* processSpan, "Check condition": FALSE (an error, or no match) means continue
conditionHolds(c) == ~c.err /\ c.matches

\* processSpan, the loop over sp.compiledRules from rule k on
RECURSIVE ruleLoop(_, _, _)
RECURSIVE generateName(_, _, _, _)
ruleLoop(st, span, k) ==
    IF k > Len(compiledRules)
    THEN [st |-> st, span |-> span, hit |-> 0]
    ELSE IF ~kindAdmits(compiledRules[k], span)
    THEN ruleLoop(st, span, k + 1)
    ELSE IF ~conditionHolds(ConditionEval(compiledRules[k].Condition, span))
    THEN ruleLoop(st, span, k + 1)
    ELSE generateName(st, span, k, ValueEval(compiledRules[k].OperationName, span))

\* a slip: an operation name that fails to evaluate ends the loop for the span
generateNameStops(st, span, k, n) ==
    IF n.err
    THEN [st |-> st, span |-> span, hit |-> 0]
    ELSE applyRule(st, span, compiledRules[k], k, Sprintf(n.val))

\* processSpan, "Rule matched - generate operation name": n is the outcome of
\* rule.OperationName.Eval; an error means continue
generateName(st, span, k, n) ==
    IF n.err
    THEN ruleLoop(st, span, k + 1)
    ELSE applyRule(st, span, compiledRules[k], k, Sprintf(n.val))

\* a slip: an operation name already on the span is not looked for
alreadySetNever(span) == FALSE

\* a slip: the skip looks at the operation type attribute
alreadySetByType(span) ==
    Get(span.attrs, cfg.SpanProcessing.OperationTypeAttribute).exists

\* processSpan, "Check if operation.name is already set - if so, skip rule evaluation"
alreadySet(span) ==
    Get(span.attrs, cfg.SpanProcessing.OperationNameAttribute).exists

\* a slip: the skip comes first, a span that is skipped is not observed
processSpanSkipsFirst(st, span) ==
    IF alreadySet(span)
    THEN [st |-> st, span |-> span, hit |-> 0]
    ELSE ruleLoop(trackOriginal(st, span.name), span, 1)

\* processSpan
processSpan(st, span) ==
    IF alreadySet(span)
    THEN [st |-> trackOriginal(st, span.name), span |-> span, hit |-> 0]
    ELSE ruleLoop(trackOriginal(st, span.name), span, 1)

\* a slip: a span no rule was applied to is left out of the batch returned
spanStepDrops(acc, r) ==
    IF r.hit = 0
    THEN [acc EXCEPT !.st = r.st, !.spanCount = @ + 1]
    ELSE [st |-> r.st,
          out |-> Append(acc.out, r.span),
          hits |-> Append(acc.hits, r.hit),
          spanCount |-> acc.spanCount + 1]

\* processTraces, the body of the loop over the spans: r is what processSpan did
spanStep(acc, r) ==
    [st |-> r.st,
     out |-> Append(acc.out, r.span),
     hits |-> Append(acc.hits, r.hit),
     spanCount |-> acc.spanCount + 1]

\* processTraces, the loop over the spans of one scope group
RECURSIVE spanLoop(_, _, _)
spanLoop(acc, spans, k) ==
    IF k > Len(spans) THEN acc
    ELSE spanLoop(spanStep(acc, IF cfg.SpanProcessing.Enabled
                                THEN processSpan(acc.st, spans[k])
                                ELSE [st |-> acc.st, span |-> spans[k], hit |-> 0]),
                  spans, k + 1)

\* the accumulator entering an inner loop, and leaving it with a group appended
enter(acc) == [st |-> acc.st, out |-> << >>, hits |-> << >>, spanCount |-> acc.spanCount]
leave(acc, group, r) ==
    [st |-> r.st, out |-> Append(acc.out, group), hits |-> Append(acc.hits, r.hits),
     spanCount |-> r.spanCount]

scopeStep(acc, ss, r) == leave(acc, [scope |-> ss.scope, spans |-> r.out], r)
resourceStep(acc, rs, r) == leave(acc, [resource |-> rs.resource, scopeSpans |-> r.out], r)

\* processTraces, the loop over the scope groups of one resource group
RECURSIVE scopeLoop(_, _, _)
scopeLoop(acc, scopeSpans, j) ==
    IF j > Len(scopeSpans) THEN acc
    ELSE scopeLoop(scopeStep(acc, scopeSpans[j], spanLoop(enter(acc), scopeSpans[j].spans, 1)),
                   scopeSpans, j + 1)

\* processTraces, the loop over the resource groups
RECURSIVE resourceLoop(_, _, _)
resourceLoop(acc, resourceSpans, i) ==
    IF i > Len(resourceSpans) THEN acc
    ELSE resourceLoop(resourceStep(acc, resourceSpans[i],
                                   scopeLoop(enter(acc), resourceSpans[i].scopeSpans, 1)),
                      resourceSpans, i + 1)

\* recordBenchmarkMetrics: the two gauges take the sizes of the two maps
recordBenchmarkMetrics(st) ==
    [st EXCEPT
       !.telemetry.originalSpanNameCount = Append(@, Cardinality(DOMAIN st.spanNameCount)),
       !.telemetry.reducedSpanNameCount = Append(@, Cardinality(DOMAIN st.operationCount))]

\* a slip: the counter is stepped once for a batch, not by its span count
recordMetricsPerBatch(r) ==
    [st |-> [telemetry |->
               [ (IF cfg.Benchmark THEN recordBenchmarkMetrics(r.st) ELSE r.st).telemetry EXCEPT
                   !.spansProcessed = IF r.spanCount > 0 THEN @ + 1 ELSE @,
                   !.durationRecords = @ + 1 ],
             spanNameCount |-> r.st.spanNameCount,
             operationCount |-> r.st.operationCount],
     out |-> r.out,
     hits |-> r.hits]

\* processTraces, "Record metrics" and what follows: r is the state after the loops
recordMetrics(r) ==
    [st |-> [telemetry |->
               [ (IF cfg.Benchmark THEN recordBenchmarkMetrics(r.st) ELSE r.st).telemetry EXCEPT
                   !.spansProcessed = IF r.spanCount > 0 THEN @ + r.spanCount ELSE @,
                   !.durationRecords = @ + 1 ],
             spanNameCount |-> r.st.spanNameCount,
             operationCount |-> r.st.operationCount],
     out |-> r.out,
     hits |-> r.hits]

\* a disabled processor returns the batch as it is
passThrough(st, batch) ==
    [st |-> st, out |-> batch,
     hits |-> [i \in 1..Len(batch) |->
                 [j \in 1..Len(batch[i].scopeSpans) |->
                    [k \in 1..Len(batch[i].scopeSpans[j].spans) |-> 0]]]]

\* a slip: the enabled switch is not looked at
processTracesAlways(st, batch) ==
    recordMetrics(resourceLoop([st |-> st, out |-> << >>, hits |-> << >>, spanCount |-> 0],
                               batch, 1))

\* processTraces: the batch returned, the rule each span stopped on, and the
\* tracker and telemetry after the call
processTraces(st, batch) ==
    IF ~cfg.Enabled
    THEN passThrough(st, batch)
    ELSE recordMetrics(resourceLoop([st |-> st, out |-> << >>, hits |-> << >>, spanCount |-> 0],
                                    batch, 1))

\* ------------------------------------------------------------- actions

\* no function called on its own, nothing returned
NoCall == [fn |-> "none"]
NoResult == [done |-> FALSE]

Init ==
    /\ cfg \in Configs
    /\ declared = [i \in 1..Len(cfg.SpanProcessing.Rules) |-> cfg.SpanProcessing.Rules[i].ID]
    /\ validated = "no"
    /\ phase = "config"
    /\ compiledRules = << >>
    /\ spanNameCount = EmptyMap
    /\ operationCount = EmptyMap
    /\ telemetry = Telemetry0
    /\ input = << >>
    /\ td = << >>
    /\ hits = << >>
    /\ call = NoCall
    /\ result = NoResult
    /\ workers = << >>
    /\ startupErr = ""

\* the host validates the configuration: cfg.Validate()
Validate ==
    /\ phase = "config"
    /\ validated = "no"
    /\ \E o \in ConfigValidate(cfg) :
          /\ cfg' = o.cfg
          /\ validated' = IF o.err THEN "error" ELSE "ok"
    /\ UNCHANGED <<declared, phase, compiledRules, spanNameCount, operationCount,
                   telemetry, input, td, hits, call, result, workers, startupErr>>

\* newSemconvProcessor: c is the outcome of compileRules
Constructed(c) ==
    /\ phase' = IF c.err THEN "failed" ELSE "ready"
    /\ compiledRules' = c.rules
    /\ startupErr' = c.rule

\* newSemconvProcessor(logger, cfg, telemetry, set); a host whose Validate
\* failed does not get this far
NewProcessor ==
    /\ phase = "config"
    /\ validated # "error"
    /\ Constructed(IF cfg.SpanProcessing.Enabled
                   THEN compileRules(cfg.SpanProcessing.Rules)
                   ELSE [err |-> FALSE, rule |-> "", rules |-> << >>])
    /\ UNCHANGED <<cfg, declared, validated, spanNameCount, operationCount,
                   telemetry, input, td, hits, call, result, workers>>

\* what a call of processTraces leaves behind
Returned(batch, r) ==
    /\ input' = batch
    /\ td' = r.out
    /\ hits' = r.hits
    /\ spanNameCount' = r.st.spanNameCount
    /\ operationCount' = r.st.operationCount
    /\ telemetry' = r.st.telemetry

\* sp.processTraces(ctx, batch)
ProcessTraces ==
    /\ phase = "ready"
    /\ \E batch \in Batches :
          Returned(batch, processTraces([spanNameCount |-> spanNameCount,
                                         operationCount |-> operationCount,
                                         telemetry |-> telemetry], batch))
    /\ phase' = "done"
    /\ UNCHANGED <<cfg, declared, validated, compiledRules, call, result, workers, startupErr>>

Next == Validate \/ NewProcessor \/ ProcessTraces

Spec == Init /\ [][Next]_vars

\* ------------------------------------------------------------- validation

\* the rules a configuration under validation draws from: two well-formed
\* rules, and one each without id, without condition, without operation_name
ValidateRulePool ==
    << Rule("a", 2, << >>, CondTrue, ValLitA, ""),
       Rule("b", 1, << >>, CondTrue, ValLitB, ""),
       Rule("",  1, << >>, CondTrue, ValLitA, ""),
       Rule("c", 1, << >>, "",       ValLitA, ""),
       Rule("d", 1, << >>, CondTrue, "",      "") >>

\* the rule lists of length 0 .. MaxRules over that pool, a rule may repeat
ValidateRuleLists ==
    UNION { { [i \in 1..n |-> ValidateRulePool[f[i]]] : f \in [1..n -> 1..Len(ValidateRulePool)] } :
            n \in 0..MaxRules }

\* configurations as a file may give them: any mode string, attribute names
\* given or left empty
ValidateConfigs ==
    [ Enabled : {TRUE},
      Benchmark : {FALSE},
      SpanProcessing :
        [ Enabled : BOOLEAN,
          Mode : {"", ModeEnrich, ModeEnforce, "rename"},
          OperationNameAttribute : {"", "op.name"},
          OperationTypeAttribute : {"", "op.type"},
          PreserveOriginalName : {FALSE},
          OriginalNameAttribute : {"", "orig.name"},
          Rules : ValidateRuleLists ] ]

\* everything but the configuration, before anything ran
Blank ==
    /\ declared = [i \in 1..Len(cfg.SpanProcessing.Rules) |-> cfg.SpanProcessing.Rules[i].ID]
    /\ validated = "no"
    /\ phase = "config"
    /\ compiledRules = << >>
    /\ spanNameCount = EmptyMap
    /\ operationCount = EmptyMap
    /\ telemetry = Telemetry0
    /\ input = << >>
    /\ td = << >>
    /\ hits = << >>
    /\ result = NoResult
    /\ workers = << >>
    /\ startupErr = ""

InitValidate == cfg \in ValidateConfigs /\ call = NoCall /\ Blank

\* the host validates a configuration; nothing is built from it here
SpecValidate == InitValidate /\ [][Validate]_vars

\* ------------------------------------------------------------- batches of several spans

\* spans that carry an attribute no rule and no configured key names
OtherAttrs == [k \in {"http.method"} |-> "GET"]
BatchSpans ==
    { [name |-> "A", kind |-> "SpanKindServer", attrs |-> OtherAttrs],
      [name |-> "x", kind |-> "SpanKindServer", attrs |-> OtherAttrs],
      [name |-> "x", kind |-> "SpanKindClient", attrs |-> OtherAttrs],
      [name |-> "A", kind |-> "SpanKindClient", attrs |-> NameAndTypeSet] }

Groupings == {"resource", "scope", "span"}

\* a span with its SpanID
WithID(span, id) == [name |-> span.name, kind |-> span.kind, attrs |-> span.attrs, id |-> id]

\* the batches of no span, one span, and two spans grouped in every way
WideBatches ==
    { << >> }
    \cup { AppendTo(<< >>, "resource", WithID(a, 1)) : a \in BatchSpans }
    \cup { AppendTo(AppendTo(<< >>, "resource", WithID(a, 1)), m, WithID(b, 2)) :
             a \in BatchSpans, b \in BatchSpans, m \in Groupings }

BatchConfigs ==
    [ Enabled : BOOLEAN,
      Benchmark : BOOLEAN,
      SpanProcessing :
        [ Enabled : BOOLEAN,
          Mode : Modes,
          OperationNameAttribute : {"operation.name"},
          OperationTypeAttribute : {"operation.type"},
          PreserveOriginalName : BOOLEAN,
          OriginalNameAttribute : {"span.name.original"},
          Rules : RuleLists ] ]

InitBatch == cfg \in BatchConfigs /\ call = NoCall /\ Blank

\* sp.processTraces(ctx, batch) on a batch of up to two spans
ProcessWide ==
    /\ phase = "ready"
    /\ \E batch \in WideBatches :
          Returned(batch, processTraces([spanNameCount |-> spanNameCount,
                                         operationCount |-> operationCount,
                                         telemetry |-> telemetry], batch))
    /\ phase' = "done"
    /\ UNCHANGED <<cfg, declared, validated, compiledRules, call, result, workers, startupErr>>

NextBatch == Validate \/ NewProcessor \/ ProcessWide

SpecBatch == InitBatch /\ [][NextBatch]_vars

\* ------------------------------------------------------------- benchmark mode

\* the batches of a benchmark run: one or two spans of one scope group
TrackerSpans ==
    { [name |-> "A", kind |-> "SpanKindServer", attrs |-> OtherAttrs],
      [name |-> "x", kind |-> "SpanKindServer", attrs |-> OtherAttrs],
      [name |-> "A", kind |-> "SpanKindClient", attrs |-> NameAndTypeSet] }
TrackerBatches ==
    { AppendTo(<< >>, "resource", a) : a \in TrackerSpans }
    \cup { AppendTo(AppendTo(<< >>, "resource", a), "span", b) :
             a \in TrackerSpans, b \in TrackerSpans }

TrackerConfigs ==
    [ Enabled : {TRUE},
      Benchmark : {TRUE},
      SpanProcessing :
        [ Enabled : {TRUE},
          Mode : Modes,
          OperationNameAttribute : {"operation.name"},
          OperationTypeAttribute : {"operation.type"},
          PreserveOriginalName : {FALSE},
          OriginalNameAttribute : {"span.name.original"},
          Rules : RuleLists ] ]

InitTracker == cfg \in TrackerConfigs /\ call = NoCall /\ Blank

\* sp.processTraces(ctx, batch), called again and again on the same processor
ProcessNextBatch ==
    /\ phase \in {"ready", "done"}
    /\ telemetry.durationRecords < MaxBatches
    /\ \E batch \in TrackerBatches :
          Returned(batch, processTraces([spanNameCount |-> spanNameCount,
                                         operationCount |-> operationCount,
                                         telemetry |-> telemetry], batch))
    /\ phase' = "done"
    /\ UNCHANGED <<cfg, declared, validated, compiledRules, call, result, workers, startupErr>>

NextTracker == NewProcessor \/ ProcessNextBatch

SpecTracker == InitTracker /\ [][NextTracker]_vars

\* ------------------------------------------------------------- concurrent batches

\* The host may call processTraces from several goroutines at once.  Each
\* goroutine below is in processSpan for one span, at the statements that
\* observe the original name, and then at the size read of
\* recordBenchmarkMetrics.  The statements take no lock, so they interleave;
\* the counter is an instrument of the metrics SDK and adds atomically.

ConcurrentConfigs == { c \in TrackerConfigs : c.SpanProcessing.Rules = << >> }

InitConcurrent == cfg \in ConcurrentConfigs /\ call = NoCall /\ Blank

Goroutine(name) == [pc |-> "check", name |-> name, exists |-> FALSE, count |-> 0]

\* two callers hand a batch of one span each to the processor at the same time
Go ==
    /\ phase = "ready"
    /\ workers = << >>
    /\ workers' \in { <<Goroutine(a), Goroutine(b)>> : a, b \in {"A", "x"} }
    /\ UNCHANGED <<cfg, declared, validated, phase, compiledRules, spanNameCount,
                   operationCount, telemetry, input, td, hits, call, result, startupErr>>

Running(i) == phase = "ready" /\ i \in DOMAIN workers

\* _, exists := sp.spanNameCount[span.Name()]
Check(i) ==
    /\ Running(i) /\ workers[i].pc = "check"
    /\ workers' = [workers EXCEPT ![i].exists = workers[i].name \in DOMAIN spanNameCount,
                                  ![i].pc = "count"]
    /\ UNCHANGED <<cfg, declared, validated, phase, compiledRules, spanNameCount,
                   operationCount, telemetry, input, td, hits, call, result, startupErr>>

\* if !exists { ProcessorSemconvUniqueSpanNamesTotal.Add(ctx, 1) }
Count(i) ==
    /\ Running(i) /\ workers[i].pc = "count"
    /\ telemetry' = [telemetry EXCEPT !.uniqueSpanNamesTotal =
                         IF workers[i].exists THEN @ ELSE @ + 1]
    /\ workers' = [workers EXCEPT ![i].pc = "load"]
    /\ UNCHANGED <<cfg, declared, validated, phase, compiledRules, spanNameCount,
                   operationCount, input, td, hits, call, result, startupErr>>

\* sp.spanNameCount[span.Name()]++, the read
Load(i) ==
    /\ Running(i) /\ workers[i].pc = "load"
    /\ workers' = [workers EXCEPT
                      ![i].count = IF workers[i].name \in DOMAIN spanNameCount
                                   THEN spanNameCount[workers[i].name] ELSE 0,
                      ![i].pc = "store"]
    /\ UNCHANGED <<cfg, declared, validated, phase, compiledRules, spanNameCount,
                   operationCount, telemetry, input, td, hits, call, result, startupErr>>

\* sp.spanNameCount[span.Name()]++, the write
Store(i) ==
    /\ Running(i) /\ workers[i].pc = "store"
    /\ spanNameCount' =
          [x \in (DOMAIN spanNameCount) \cup {workers[i].name} |->
              IF x = workers[i].name THEN workers[i].count + 1 ELSE spanNameCount[x]]
    /\ workers' = [workers EXCEPT ![i].pc = "size"]
    /\ UNCHANGED <<cfg, declared, validated, phase, compiledRules,
                   operationCount, telemetry, input, td, hits, call, result, startupErr>>

\* recordBenchmarkMetrics: originalCount := int64(len(sp.spanNameCount)), recorded
Size(i) ==
    /\ Running(i) /\ workers[i].pc = "size"
    /\ telemetry' = [telemetry EXCEPT !.originalSpanNameCount =
                         Append(@, Cardinality(DOMAIN spanNameCount))]
    /\ workers' = [workers EXCEPT ![i].pc = "done"]
    /\ UNCHANGED <<cfg, declared, validated, phase, compiledRules, spanNameCount,
                   operationCount, input, td, hits, call, result, startupErr>>

\* a goroutine writes the map while another reads or writes it: the Go runtime
\* may stop the process ("fatal error: concurrent map writes")
Fault ==
    /\ phase = "ready"
    /\ \E i, j \in DOMAIN workers :
          /\ i # j
          /\ workers[i].pc = "store"
          /\ workers[j].pc \in {"check", "load", "store", "size"}
    /\ phase' = "crashed"
    /\ UNCHANGED <<cfg, declared, validated, compiledRules, spanNameCount,
                   operationCount, telemetry, input, td, hits, call, result, workers, startupErr>>

NextConcurrent ==
    \/ NewProcessor
    \/ Go
    \/ \E i \in DOMAIN workers : Check(i) \/ Count(i) \/ Load(i) \/ Store(i) \/ Size(i)
    \/ Fault

SpecConcurrent == InitConcurrent /\ [][NextConcurrent]_vars

\* ------------------------------------------------------------- OTTL functions

\* A Go string is the sequence of its characters.
Digits == {"0", "1", "2", "3", "4", "5", "6", "7", "8", "9"}
HexDigits == Digits \cup {"a", "b", "c", "d", "e", "f", "A", "B", "C", "D", "E", "F"}
IdToken == <<"{", "i", "d", "}">>

\* strings.Index(s, c): the first position of the character, 0 when absent
IndexOf(s, c) ==
    IF \E i \in DOMAIN s : s[i] = c
    THEN CHOOSE i \in DOMAIN s : s[i] = c /\ \A j \in 1..(i - 1) : s[j] # c
    ELSE 0

\* the length of the longest run of characters of a class that starts at position i
RECURSIVE RunLen(_, _, _)
RunLen(s, i, class) ==
    IF i <= Len(s) /\ s[i] \in class THEN 1 + RunLen(s, i + 1, class) ELSE 0

\* uuidRe at position i: the length of the match, 0 when there is none
\* [0-9a-fA-F]{8}-[0-9a-fA-F]{4}-[0-9a-fA-F]{4}-[0-9a-fA-F]{4}-[0-9a-fA-F]{12}
UuidMatch(s, i) ==
    IF /\ i + 35 <= Len(s)
       /\ \A o \in 0..35 :
             IF o \in {8, 13, 18, 23} THEN s[i + o] = "-" ELSE s[i + o] \in HexDigits
    THEN 36 ELSE 0

\* a pattern /C{min,}(/|$) at position i, C a character class: the greedy run
\* is the whole run of C, and the match needs a slash or the end after it.
\* The result is the length of the match (the closing slash included), 0 when
\* there is none.
SegmentMatch(s, i, class, min) ==
    IF s[i] = "/"
    THEN LET n == RunLen(s, i + 1, class)
         IN  IF n < min THEN 0
             ELSE IF i + n = Len(s) THEN 1 + n
             ELSE IF s[i + n + 1] = "/" THEN n + 2
             ELSE 0
    ELSE 0

\* uuidRe.ReplaceAllString(s, "{id}"): the matches are taken from the left and
\* do not overlap
RECURSIVE ReplaceUuid(_, _)
ReplaceUuid(s, i) ==
    IF i > Len(s) THEN << >>
    ELSE IF UuidMatch(s, i) > 0 THEN IdToken \o ReplaceUuid(s, i + UuidMatch(s, i))
    ELSE <<s[i]>> \o ReplaceUuid(s, i + 1)

\* re.ReplaceAllString(s, "/{id}$1") for a pattern /C{min,}(/|$): the matches
\* are taken from the left and do not overlap, so the slash that closes one
\* match cannot open the next
RECURSIVE ReplaceSegments(_, _, _, _)
ReplaceSegments(s, i, class, min) ==
    IF i > Len(s) THEN << >>
    ELSE IF SegmentMatch(s, i, class, min) > 0
    THEN <<"/">> \o IdToken
         \o (IF SegmentMatch(s, i, class, min) = RunLen(s, i + 1, class) + 2
             THEN <<"/">> ELSE << >>)
         \o ReplaceSegments(s, i + SegmentMatch(s, i, class, min), class, min)
    ELSE <<s[i]>> \o ReplaceSegments(s, i + 1, class, min)

\* "Remove query parameters first"
stripQuery(s) == IF IndexOf(s, "?") # 0 THEN SubSeq(s, 1, IndexOf(s, "?") - 1) ELSE s

\* normalizePath: query, UUIDs, hex strings of 16 and more, numeric ids
NormalizePath(pathStr) ==
    ReplaceSegments(
        ReplaceSegments(ReplaceUuid(stripQuery(pathStr), 1), 1, HexDigits, 16),
        1, Digits, 1)

\* the paths handed to NormalizePath
PathChars == {"/", "1", "a", "?"}
Paths == UNION { [1..n -> PathChars] : n \in 0..MaxPathLen }

\* createDefaultConfig: &Config{}
DefaultConfig ==
    [ Enabled |-> FALSE,
      Benchmark |-> FALSE,
      SpanProcessing |->
        [ Enabled |-> FALSE, Mode |-> "",
          OperationNameAttribute |-> "", OperationTypeAttribute |-> "",
          PreserveOriginalName |-> FALSE, OriginalNameAttribute |-> "",
          Rules |-> << >> ] ]

\* what getter.Get(ctx, tCtx) gives for one getter: an error, nil, or a value
GetterOutcomes ==
    { [err |-> TRUE,  val |-> Nil],
      [err |-> FALSE, val |-> Nil],
      [err |-> FALSE, val |-> Str("first-choice")],
      [err |-> FALSE, val |-> Str("second-choice")] }
GetterLists == UNION { [1..n -> GetterOutcomes] : n \in 0..MaxGetters }

\* a slip: the error of a getter is returned
RECURSIVE firstNonNilReturnsError(_, _)
firstNonNilReturnsError(values, i) ==
    IF i > Len(values) THEN [val |-> Nil, err |-> FALSE, gets |-> Len(values)]
    ELSE IF values[i].err THEN [val |-> Nil, err |-> TRUE, gets |-> i]
    ELSE IF values[i].val # Nil THEN [val |-> values[i].val, err |-> FALSE, gets |-> i]
    ELSE firstNonNilReturnsError(values, i + 1)

\* firstNonNil, the loop over the getters from the i-th on: the value and the
\* error returned, and how many getters were evaluated
RECURSIVE firstNonNil(_, _)
firstNonNil(values, i) ==
    IF i > Len(values) THEN [val |-> Nil, err |-> FALSE, gets |-> Len(values)]
    ELSE IF values[i].err THEN firstNonNil(values, i + 1)
    ELSE IF values[i].val # Nil THEN [val |-> values[i].val, err |-> FALSE, gets |-> i]
    ELSE firstNonNil(values, i + 1)

InitFunctions ==
    /\ cfg = DefaultConfig
    /\ call \in { [fn |-> "NormalizePath", arg |-> x, nth |-> 1] : x \in Paths }
              \cup { [fn |-> "FirstNonNil", arg |-> g, nth |-> 1] : g \in GetterLists }
    /\ Blank

\* FirstNonNil is evaluated on its getters
FirstNonNil ==
    /\ call.fn = "FirstNonNil"
    /\ ~result.done
    /\ result' = [done |-> TRUE, ret |-> firstNonNil(call.arg, 1)]
    /\ UNCHANGED <<cfg, declared, validated, phase, compiledRules, spanNameCount,
                   operationCount, telemetry, input, td, hits, call, workers, startupErr>>

\* the function is evaluated on its argument
Normalize ==
    /\ call.fn = "NormalizePath"
    /\ ~result.done
    /\ result' = [done |-> TRUE, val |-> NormalizePath(call.arg)]
    /\ UNCHANGED <<cfg, declared, validated, phase, compiledRules, spanNameCount,
                   operationCount, telemetry, input, td, hits, call, workers, startupErr>>

\* the function is called once more, on what it returned
NormalizeAgain ==
    /\ call.fn = "NormalizePath"
    /\ result.done
    /\ call.nth = 1
    /\ call' = [fn |-> "NormalizePath", arg |-> result.val, nth |-> 2]
    /\ result' = NoResult
    /\ UNCHANGED <<cfg, declared, validated, phase, compiledRules, spanNameCount,
                   operationCount, telemetry, input, td, hits, workers, startupErr>>

NextFunctions == Normalize \/ NormalizeAgain \/ FirstNonNil

SpecFunctions == InitFunctions /\ [][NextFunctions]_vars

\* ------------------------------------------------------------- span kinds

\* rules with and without a span_kind list, one of them listing "unspecified"
KindRulePool ==
    << Rule("fallback",    2, << >>,                        CondTrue, ValLitA, ""),
       Rule("server",      1, <<"server">>,                 CondTrue, ValLitB, ValLitHttp),
       Rule("unspecified", 1, <<"unspecified">>,            CondTrue, ValLitC, ""),
       Rule("either",      1, <<"client", "unspecified">>,  CondNameIsX, ValLitC, "") >>

KindRuleLists ==
    UNION { { [i \in 1..n |-> KindRulePool[f[i]]] :
                f \in { g \in [1..n -> 1..Len(KindRulePool)] :
                          \A a, b \in 1..n : a # b => g[a] # g[b] } } :
            n \in 0..MaxRules }

KindConfigs ==
    [ Enabled : {TRUE},
      Benchmark : {FALSE},
      SpanProcessing :
        [ Enabled : {TRUE},
          Mode : {ModeEnrich, ModeEnforce},
          OperationNameAttribute : {"operation.name"},
          OperationTypeAttribute : {"operation.type"},
          PreserveOriginalName : {FALSE},
          OriginalNameAttribute : {"span.name.original"},
          Rules : KindRuleLists ] ]

\* spans of kind unspecified, of a kind value outside the enumeration, and of
\* kind server
KindSpans ==
    [ name : {"A", "x"},
      kind : {"SpanKindUnspecified", "SpanKind(99)", "SpanKindServer"},
      attrs : {NoAttrs} ]
KindBatches == { AppendTo(<< >>, "resource", a) : a \in KindSpans }

InitKinds == cfg \in KindConfigs /\ call = NoCall /\ Blank

\* sp.processTraces(ctx, batch) on a batch of one such span
ProcessKinds ==
    /\ phase = "ready"
    /\ \E batch \in KindBatches :
          Returned(batch, processTraces([spanNameCount |-> spanNameCount,
                                         operationCount |-> operationCount,
                                         telemetry |-> telemetry], batch))
    /\ phase' = "done"
    /\ UNCHANGED <<cfg, declared, validated, compiledRules, call, result, workers, startupErr>>

NextKinds == Validate \/ NewProcessor \/ ProcessKinds

SpecKinds == InitKinds /\ [][NextKinds]_vars

\* ------------------------------------------------------------- a batch processed twice

ReprocessConfigs == { c \in BatchConfigs : ~c.Benchmark }

InitReprocess == cfg \in ReprocessConfigs /\ call = NoCall /\ Blank

\* sp.processTraces(ctx, td) on the batch the first call returned
Reprocess ==
    /\ phase = "done"
    /\ Returned(td, processTraces([spanNameCount |-> spanNameCount,
                                   operationCount |-> operationCount,
                                   telemetry |-> telemetry], td))
    /\ phase' = "redone"
    /\ UNCHANGED <<cfg, declared, validated, compiledRules, call, result, workers, startupErr>>

NextReprocess == Validate \/ NewProcessor \/ ProcessWide \/ Reprocess

SpecReprocess == InitReprocess /\ [][NextReprocess]_vars

\* ------------------------------------------------------------- counters

\* the processor switched on or off, span processing switched on or off
CounterConfigs ==
    [ Enabled : BOOLEAN,
      Benchmark : {FALSE},
      SpanProcessing :
        [ Enabled : BOOLEAN,
          Mode : {ModeEnrich, ModeEnforce},
          OperationNameAttribute : {"operation.name"},
          OperationTypeAttribute : {"operation.type"},
          PreserveOriginalName : {FALSE},
          OriginalNameAttribute : {"span.name.original"},
          Rules : RuleLists ] ]

\* batches of no span, of one span and of two
CounterBatches == {<< >>} \cup TrackerBatches

InitCounters == cfg \in CounterConfigs /\ call = NoCall /\ Blank

\* sp.processTraces(ctx, batch), called again and again on the same processor
ProcessCounted ==
    /\ phase \in {"ready", "done"}
    /\ telemetry.durationRecords < MaxBatches
    /\ \E batch \in CounterBatches :
          Returned(batch, processTraces([spanNameCount |-> spanNameCount,
                                         operationCount |-> operationCount,
                                         telemetry |-> telemetry], batch))
    /\ phase' = "done"
    /\ UNCHANGED <<cfg, declared, validated, compiledRules, call, result, workers, startupErr>>

NextCounters == NewProcessor \/ ProcessCounted

SpecCounters == InitCounters /\ [][NextCounters]_vars

\* ------------------------------------------------------------- startup

\* rules of which the condition, the operation_name or the operation_type is
\* not an expression the parser accepts
CompileRulePool ==
    << Rule("ok",      1, << >>, CondTrue,  ValLitA,   ValLitHttp),
       Rule("badcond", 1, << >>, "name ==", ValLitA,   ""),
       Rule("badname", 2, << >>, CondTrue,  "Concat(", ""),
       Rule("badtype", 1, << >>, CondTrue,  ValLitB,   "NoSuchFunction()") >>

CompileRuleLists ==
    UNION { { [i \in 1..n |-> CompileRulePool[f[i]]] :
                f \in { g \in [1..n -> 1..Len(CompileRulePool)] :
                          \A a, b \in 1..n : a # b => g[a] # g[b] } } :
            n \in 0..MaxRules }

CompileConfigs ==
    [ Enabled : {TRUE},
      Benchmark : {FALSE},
      SpanProcessing :
        [ Enabled : BOOLEAN,
          Mode : {ModeEnrich, ModeEnforce},
          OperationNameAttribute : {"operation.name"},
          OperationTypeAttribute : {"operation.type"},
          PreserveOriginalName : {FALSE},
          OriginalNameAttribute : {"span.name.original"},
          Rules : CompileRuleLists ] ]

InitCompile == cfg \in CompileConfigs /\ call = NoCall /\ Blank

SpecCompile == InitCompile /\ [][Next]_vars

\* ------------------------------------------------------------- claims

Done == phase = "done"
Built == phase \in {"ready", "done"}
Evaluating == cfg.Enabled /\ cfg.SpanProcessing.Enabled

\* a span of the batch before and after processTraces, and the rule its loop stopped on
Before(p) == SpanAt(input, p)
After(p) == SpanAt(td, p)
Hit(p) == hits[p[1]][p[2]][p[3]]
HitRule(p) == compiledRules[Hit(p)]

OperationNameKey == cfg.SpanProcessing.OperationNameAttribute
OperationTypeKey == cfg.SpanProcessing.OperationTypeAttribute
OriginalNameKey == cfg.SpanProcessing.OriginalNameAttribute
Has(span, key) == key \in DOMAIN span.attrs

\* the operation name a rule produces for a span
ProducedName(rule, span) == Sprintf(ValueEval(rule.OperationName, span).val)

\* a rule qualifies for a span: its kind filter admits the span, its condition
\* evaluates to true and its operation_name evaluates without error
Admits(rule, span) ==
    rule.SpanKind = << >> \/ \E a \in DOMAIN rule.SpanKind : rule.SpanKind[a] = getSpanKindString(span.kind)
ConditionTrue(rule, span) ==
    ~ConditionEval(rule.Condition, span).err /\ ConditionEval(rule.Condition, span).matches
Qualifies(rule, span) ==
    /\ Admits(rule, span)
    /\ ConditionTrue(rule, span)
    /\ ~ValueEval(rule.OperationName, span).err

\* the position of a rule in the configuration as it was declared
DeclIndex(id) == CHOOSE i \in DOMAIN declared : declared[i] = id

\* rule a comes before rule b in priority order, ties broken by declaration order
Precedes(a, b) ==
    \/ a.Priority < b.Priority
    \/ a.Priority = b.Priority /\ DeclIndex(a.ID) <= DeclIndex(b.ID)

\* C1 (as claimed): for every span processSpan evaluates, the loop stops on the
\* qualifying rule that is first in priority order, ties broken by declaration
\* order, only that rule's result is on the span, and a span for which no rule
\* qualifies is not mutated.
C1_FirstMatchInPriorityOrder ==
    (Done /\ Evaluating) =>
        \A p \in Positions(input) :
            ~Has(Before(p), OperationNameKey) =>
                IF \E k \in DOMAIN compiledRules : Qualifies(compiledRules[k], Before(p))
                THEN /\ Hit(p) # 0
                     /\ Qualifies(HitRule(p), Before(p))
                     /\ \A k \in DOMAIN compiledRules :
                           Qualifies(compiledRules[k], Before(p)) =>
                               Precedes(HitRule(p), compiledRules[k])
                ELSE Hit(p) = 0 /\ After(p) = Before(p)

\* C2: a span that already carries operation_name_attribute leaves processTraces
\* with the name and the attributes it came with, in every mode and whatever
\* the rules are.
C2_SkipOnPresent ==
    Done =>
        \A p \in Positions(input) :
            Has(Before(p), OperationNameKey) =>
                /\ After(p).name = Before(p).name
                /\ After(p).attrs = Before(p).attrs

C2_Witness ==
    /\ Done /\ Evaluating
    /\ cfg.SpanProcessing.Mode = ModeEnforce
    /\ \E p \in Positions(input) :
          /\ Has(Before(p), OperationNameKey)
          /\ Has(Before(p), OperationTypeKey)
          /\ \E k \in DOMAIN compiledRules :
                /\ Qualifies(compiledRules[k], Before(p))
                /\ ProducedName(compiledRules[k], Before(p)) # Before(p).name

\* C3: with enabled=false or span_processing.enabled=false the batch returned
\* has the same spans, each with the name and the attributes of the input.
C3_PassThrough ==
    (Done /\ ~Evaluating) =>
        /\ Positions(td) = Positions(input)
        /\ \A p \in Positions(input) :
              /\ After(p).name = Before(p).name
              /\ After(p).attrs = Before(p).attrs

C3_Witness ==
    /\ Done
    /\ ~cfg.Enabled
    /\ cfg.SpanProcessing.Enabled
    /\ cfg.SpanProcessing.Mode = ModeEnforce
    /\ \E p \in Positions(input) :
          /\ ~Has(Before(p), OperationNameKey)
          /\ \E k \in DOMAIN compiledRules :
                /\ Qualifies(compiledRules[k], Before(p))
                /\ ProducedName(compiledRules[k], Before(p)) # Before(p).name

C5_EnrichMode ==
    (Done /\ cfg.SpanProcessing.Mode = ModeEnrich) =>
        \A p \in Positions(input) :
            Hit(p) # 0 =>
                /\ After(p).name = Before(p).name
                /\ Has(After(p), OperationNameKey)
                /\ After(p).attrs[OperationNameKey] = ProducedName(HitRule(p), Before(p))
                /\ (operationTypeOf(HitRule(p), Before(p)) # "" /\ ~Has(Before(p), OperationTypeKey)) =>
                      /\ Has(After(p), OperationTypeKey)
                      /\ After(p).attrs[OperationTypeKey] = operationTypeOf(HitRule(p), Before(p))

C5_Witness ==
    /\ Done
    /\ cfg.SpanProcessing.Mode = ModeEnrich
    /\ \E p \in Positions(input) :
          /\ Hit(p) # 0
          /\ ProducedName(HitRule(p), Before(p)) # Before(p).name
          /\ operationTypeOf(HitRule(p), Before(p)) # ""
          /\ ~Has(Before(p), OperationTypeKey)

KeepsOriginal(p) ==
    /\ cfg.SpanProcessing.Mode = ModeEnforce
    /\ cfg.SpanProcessing.PreserveOriginalName
    /\ Hit(p) # 0
    /\ Before(p).name # ProducedName(HitRule(p), Before(p))

\* C7: original_name_attribute is written exactly when the mode is enforce,
\* preserve_original_name is set, a rule was applied and the name before differs
\* from the produced name, and then holds the name before; otherwise the
\* attribute is as it was (absent, in every batch of the model).
C7_OriginalName ==
    Done =>
        \A p \in Positions(input) :
            IF KeepsOriginal(p)
            THEN /\ Has(After(p), OriginalNameKey)
                 /\ After(p).attrs[OriginalNameKey] = Before(p).name
            ELSE /\ Has(After(p), OriginalNameKey) = Has(Before(p), OriginalNameKey)
                 /\ ~Has(After(p), OriginalNameKey)

C7_Witness ==
    /\ Done
    /\ \E p \in Positions(input) :
          /\ KeepsOriginal(p)
          /\ Before(p).name = "x"
          /\ After(p).name = "A"

\* the rules are in ascending priority order
Ascending(rules) ==
    \A i, j \in DOMAIN rules : i < j => rules[i].Priority <= rules[j].Priority
\* rules of equal priority are in the order the configuration declared them
TiesInDeclaredOrder(rules) ==
    \A i, j \in DOMAIN rules :
        (i < j /\ rules[i].Priority = rules[j].Priority) => DeclIndex(rules[i].ID) < DeclIndex(rules[j].ID)

\* C8 (as claimed): after SpanProcessingConfig.Validate succeeds the rules are in
\* ascending priority order and rules of equal priority keep their input order.
C8_SortedAndStable ==
    (validated = "ok" /\ cfg.SpanProcessing.Enabled) =>
        /\ Ascending(cfg.SpanProcessing.Rules)
        /\ TiesInDeclaredOrder(cfg.SpanProcessing.Rules)

\* C9 (as claimed): a processor built with span_processing enabled holds its
\* compiled rules in ascending priority order, whatever the order of the rules
\* in the configuration it was built from.
C9_CompiledRulesAscending ==
    (Built /\ cfg.SpanProcessing.Enabled) => Ascending(compiledRules)

\* C10: the rule applied to a span admits the span's kind (its span_kind list is
\* empty or holds the kind), and a rule with an empty span_kind list whose
\* condition and operation_name evaluate for the span is not passed over: the
\* loop stops on it or on an earlier rule.
C10_KindFilter ==
    (Done /\ Evaluating) =>
        \A p \in Positions(input) :
            /\ Hit(p) # 0 =>
                  \/ HitRule(p).SpanKind = << >>
                  \/ \E a \in DOMAIN HitRule(p).SpanKind :
                        HitRule(p).SpanKind[a] = getSpanKindString(Before(p).kind)
            /\ \A k \in DOMAIN compiledRules :
                  ( /\ compiledRules[k].SpanKind = << >>
                    /\ ~Has(Before(p), OperationNameKey)
                    /\ ConditionTrue(compiledRules[k], Before(p))
                    /\ ~ValueEval(compiledRules[k].OperationName, Before(p)).err )
                  => (Hit(p) # 0 /\ Hit(p) <= k)

C10_Witness ==
    /\ Done /\ Evaluating
    /\ cfg.SpanProcessing.Mode = ModeEnforce
    /\ \E p \in Positions(input) :
          /\ ~Has(Before(p), OperationNameKey)
          /\ Before(p).kind = "SpanKindClient"
          /\ compiledRules # << >>
          /\ compiledRules[1].SpanKind = <<"server">>
          /\ ConditionTrue(compiledRules[1], Before(p))
          /\ Hit(p) = 2
          /\ HitRule(p).SpanKind = << >>

\* what the claim lists as the grounds for rejecting a span_processing section
Rejected(sp) ==
    \/ sp.Mode \notin {"", "enrich", "enforce"}
    \/ sp.Rules = << >>
    \/ \E i \in DOMAIN sp.Rules :
          sp.Rules[i].ID = "" \/ sp.Rules[i].Condition = "" \/ sp.Rules[i].OperationName = ""
    \/ \E i, j \in DOMAIN sp.Rules : i # j /\ sp.Rules[i].ID = sp.Rules[j].ID

\* C11: Validate returns an error exactly when span_processing is enabled and
\* the mode is none of empty, enrich, enforce, or there is no rule, or a rule
\* has an empty id, condition or operation_name, or two rules share an id;
\* with span_processing disabled it always succeeds.
C11_ValidateErrorIff ==
    [][ validated' # validated =>
          ((validated' = "error") <=>
              (cfg.SpanProcessing.Enabled /\ Rejected(cfg.SpanProcessing))) ]_vars

\* Validate refused a configuration whose only flaw is an id used twice
C11_Witness ==
    /\ validated = "error"
    /\ cfg.SpanProcessing.Mode \in {"enrich", "enforce"}
    /\ Len(cfg.SpanProcessing.Rules) = 2
    /\ cfg.SpanProcessing.Rules[1] = cfg.SpanProcessing.Rules[2]
    /\ cfg.SpanProcessing.Rules[1].ID # ""
    /\ cfg.SpanProcessing.Rules[1].Condition # ""
    /\ cfg.SpanProcessing.Rules[1].OperationName # ""

\* C12 (as claimed): when SpanProcessingConfig.Validate succeeds, an empty mode
\* has become enrich and empty attribute names have become operation.name,
\* operation.type and name.original; fields given non-empty are as given.
C12_Defaults ==
    [][ (validated = "no" /\ validated' = "ok" /\ cfg.SpanProcessing.Enabled) =>
          /\ cfg'.SpanProcessing.Mode =
                IF cfg.SpanProcessing.Mode = "" THEN "enrich" ELSE cfg.SpanProcessing.Mode
          /\ cfg'.SpanProcessing.OperationNameAttribute =
                IF cfg.SpanProcessing.OperationNameAttribute = "" THEN "operation.name"
                ELSE cfg.SpanProcessing.OperationNameAttribute
          /\ cfg'.SpanProcessing.OperationTypeAttribute =
                IF cfg.SpanProcessing.OperationTypeAttribute = "" THEN "operation.type"
                ELSE cfg.SpanProcessing.OperationTypeAttribute
          /\ cfg'.SpanProcessing.OriginalNameAttribute =
                IF cfg.SpanProcessing.OriginalNameAttribute = "" THEN "name.original"
                ELSE cfg.SpanProcessing.OriginalNameAttribute ]_vars

\* the rule the loop is to stop on for a span: none for a span that carries the
\* operation name already, otherwise the first rule in stored order that qualifies
Expected(span) ==
    IF Has(span, OperationNameKey) THEN 0
    ELSE IF \E k \in DOMAIN compiledRules : Qualifies(compiledRules[k], span)
    THEN CHOOSE k \in DOMAIN compiledRules :
            /\ Qualifies(compiledRules[k], span)
            /\ \A j \in 1..(k - 1) : ~Qualifies(compiledRules[j], span)
    ELSE 0

\* rule k is evaluated for the span and its condition or operation_name fails
FailsOn(k, span) ==
    /\ ~Has(span, OperationNameKey)
    /\ \A j \in 1..(k - 1) : ~Qualifies(compiledRules[j], span)
    /\ Admits(compiledRules[k], span)
    /\ \/ ConditionEval(compiledRules[k].Condition, span).err
       \/ ConditionTrue(compiledRules[k], span) /\ ValueEval(compiledRules[k].OperationName, span).err

\* the number of enforcements recorded for a rule id
Enforcements(id) ==
    LET ofRule(l) == l.rule_id = id
    IN  Len(SelectSeq(telemetry.spanNamesEnforced, ofRule))

\* C13: a rule whose condition or operation_name fails for a span is not the
\* rule applied to it and records no enforcement for it; the loop goes on and
\* stops on the next rule that qualifies (leaving the span as it was when none
\* does), and every span of the batch, also after the failure, is evaluated
\* and returned.
C13_FailureIsolation ==
    (Done /\ Evaluating) =>
        /\ Positions(td) = Positions(input)
        /\ \A p \in Positions(input) :
              /\ Hit(p) = Expected(Before(p))
              /\ \A k \in DOMAIN compiledRules :
                    FailsOn(k, Before(p)) =>
                        /\ Hit(p) # k
                        /\ Hit(p) = 0 => After(p) = Before(p)
        /\ \A k \in DOMAIN compiledRules :
              Enforcements(compiledRules[k].ID) <=
                  Cardinality({ p \in Positions(input) : Hit(p) = k })

\* the first rule fails on both spans of a batch, on one by its condition and
\* on the other by its operation_name, and both are named by the second rule
C13_Witness ==
    /\ Done /\ Evaluating
    /\ cfg.SpanProcessing.Mode = ModeEnforce
    /\ Len(compiledRules) = 2
    /\ \E p, q \in Positions(input) :
          /\ p # q
          /\ FailsOn(1, Before(p)) /\ ConditionEval(compiledRules[1].Condition, Before(p)).err
          /\ FailsOn(1, Before(q)) /\ ~ConditionEval(compiledRules[1].Condition, Before(q)).err
          /\ Hit(p) = 2 /\ Hit(q) = 2
          /\ Enforcements(compiledRules[1].ID) = 0
          /\ Enforcements(compiledRules[2].ID) = 2

\* the batch returned has the groups of the batch handed in, one for one
SameShape ==
    /\ Len(td) = Len(input)
    /\ \A i \in DOMAIN input :
          /\ Len(td[i].scopeSpans) = Len(input[i].scopeSpans)
          /\ \A j \in DOMAIN input[i].scopeSpans :
                Len(td[i].scopeSpans[j].spans) = Len(input[i].scopeSpans[j].spans)

\* C14: whatever the configuration, processTraces returns a batch with as many
\* resource groups, scope groups and spans as it was handed, and every span is
\* where it was: the span at a position of the output is the span at that
\* position of the input (by SpanID).
C14_NoSpanDroppedOrReordered ==
    Done =>
        /\ SameShape
        /\ \A p \in Positions(input) : After(p).id = Before(p).id

\* two spans in different groups, the first left alone and the second renamed
C14_Witness ==
    /\ Done /\ Evaluating
    /\ cfg.SpanProcessing.Mode = ModeEnforce
    /\ Len(input) = 2
    /\ Hit(<<1, 1, 1>>) = 0
    /\ Hit(<<2, 1, 1>>) # 0
    /\ After(<<2, 1, 1>>).name # Before(<<2, 1, 1>>).name

ConfiguredKeys == {OperationNameKey, OperationTypeKey, OriginalNameKey}

\* the attributes of a span at the keys the configuration does not name
OtherAttributes(span) ==
    [k \in (DOMAIN span.attrs) \ ConfiguredKeys |-> span.attrs[k]]

\* C15: processTraces leaves the resource and scope attributes of every group,
\* and the kind, the SpanID and every attribute outside the three configured
\* keys of every span, as they were; a span to which no rule was applied is
\* returned as it came.
C15_Frame ==
    Done =>
        /\ SameShape
        /\ \A i \in DOMAIN input :
              /\ td[i].resource = input[i].resource
              /\ \A j \in DOMAIN input[i].scopeSpans :
                    td[i].scopeSpans[j].scope = input[i].scopeSpans[j].scope
        /\ \A p \in Positions(input) :
              /\ After(p).kind = Before(p).kind
              /\ After(p).id = Before(p).id
              /\ OtherAttributes(After(p)) = OtherAttributes(Before(p))
              /\ Hit(p) = 0 => After(p) = Before(p)

\* a span with an attribute of its own is renamed and gets all three
\* configured attributes
C15_Witness ==
    /\ Done /\ Evaluating
    /\ \E p \in Positions(input) :
          /\ Hit(p) # 0
          /\ OtherAttributes(Before(p)) # EmptyMap
          /\ After(p).name # Before(p).name
          /\ ConfiguredKeys \subseteq DOMAIN After(p).attrs
          /\ DOMAIN Before(p).attrs \cap ConfiguredKeys = {}

\* the names of the spans of a batch, and the names the applied rules produced
NamesOf(b) == { SpanAt(b, p).name : p \in Positions(b) }
ProducedIn(b, h) ==
    { ProducedName(compiledRules[h[p[1]][p[2]][p[3]]], SpanAt(b, p)) :
        p \in { q \in Positions(b) : h[q[1]][q[2]][q[3]] # 0 } }

\* C16: with benchmark=true, after any sequence of batches
\* unique_span_names_total is the number of keys of the original-names map and
\* unique_operation_names_total the number of keys of the operations map;
\* each batch adds to the keys exactly the names of its spans and the names
\* its rules produced, and neither counter ever decreases.
C16_TrackerAccounting ==
    /\ [](Built =>
            /\ telemetry.uniqueSpanNamesTotal = Cardinality(DOMAIN spanNameCount)
            /\ telemetry.uniqueOperationNamesTotal = Cardinality(DOMAIN operationCount))
    /\ [][ /\ telemetry'.uniqueSpanNamesTotal >= telemetry.uniqueSpanNamesTotal
           /\ telemetry'.uniqueOperationNamesTotal >= telemetry.uniqueOperationNamesTotal
           /\ telemetry'.durationRecords # telemetry.durationRecords =>
                 /\ DOMAIN spanNameCount' = DOMAIN spanNameCount \cup NamesOf(input')
                 /\ DOMAIN operationCount' = DOMAIN operationCount \cup ProducedIn(input', hits') ]_vars

\* two batches, spans of two names seen more than once, all given one name
C16_Witness ==
    /\ telemetry.durationRecords = 2
    /\ DOMAIN spanNameCount = {"A", "x"}
    /\ spanNameCount["A"] = 2 /\ spanNameCount["x"] = 2
    /\ DOMAIN operationCount = {"A"}
    /\ operationCount["A"] = 4
    /\ telemetry.uniqueSpanNamesTotal = 2
    /\ telemetry.uniqueOperationNamesTotal = 1
    /\ telemetry.originalSpanNameCount = <<2, 2>>
    /\ telemetry.reducedSpanNameCount = <<1, 1>>

\* a goroutine is inside an observation of the tracker
Observing(i) == workers[i].pc \in {"count", "load", "store"}

\* the sum of the per-name counts of the original-names map
RECURSIVE Total(_, _)
Total(m, keys) ==
    IF keys = {} THEN 0
    ELSE LET k == CHOOSE x \in keys : TRUE IN m[k] + Total(m, keys \ {k})

\* C17 (as claimed): the observations of the tracker by concurrent batches
\* exclude each other, so that the process keeps running, and once every
\* batch is through each name was counted as unique exactly once and no
\* per-name increment is lost.
C17_TrackerMutualExclusion ==
    /\ phase # "crashed"
    /\ \A i, j \in DOMAIN workers : (Observing(i) /\ Observing(j)) => i = j
    /\ (workers # << >> /\ \A i \in DOMAIN workers : workers[i].pc = "done") =>
          /\ telemetry.uniqueSpanNamesTotal = Cardinality(DOMAIN spanNameCount)
          /\ Total(spanNameCount, DOMAIN spanNameCount) = Len(workers)

\* C18 (as claimed): for a batch processed in enforce mode under a rule set
\* that Validate accepted, the batch has at most as many distinct span names
\* after processing as it had before.
C18_EnforceReducesCardinality ==
    (Done /\ Evaluating /\ validated = "ok" /\ cfg.SpanProcessing.Mode = ModeEnforce) =>
        Cardinality(NamesOf(td)) <= Cardinality(NamesOf(input))

\* C19 (as claimed): NormalizePath applied to what NormalizePath returned
\* returns it unchanged.
C19_NormalizePathIdempotent ==
    (call.fn = "NormalizePath" /\ call.nth = 2 /\ result.done) => result.val = call.arg

\* a segment of s that consists of decimal digits only: it follows a slash and
\* ends at a slash or at the end of s
NumericSegment(s, i, j) ==
    /\ i \in DOMAIN s /\ j \in DOMAIN s /\ i < j
    /\ s[i] = "/"
    /\ \A k \in (i + 1)..j : s[k] \in Digits
    /\ j = Len(s) \/ s[j + 1] = "/"

\* the segments of s between slashes, the part before the first slash first
RECURSIVE Segments(_)
Segments(s) ==
    IF IndexOf(s, "/") = 0 THEN <<s>>
    ELSE <<SubSeq(s, 1, IndexOf(s, "/") - 1)>> \o Segments(SubSeq(s, IndexOf(s, "/") + 1, Len(s)))

\* s with every purely numeric segment after a slash replaced by {id}
RECURSIVE Joined(_, _)
Joined(segs, k) ==
    IF k > Len(segs) THEN << >>
    ELSE (IF k > 1 THEN <<"/">> ELSE << >>)
         \o (IF k > 1 /\ segs[k] # << >> /\ \A c \in DOMAIN segs[k] : segs[k][c] \in Digits
             THEN IdToken ELSE segs[k])
         \o Joined(segs, k + 1)

\* C20 (as claimed): one call of NormalizePath replaces every purely numeric
\* segment, wherever it is, by {id} and keeps the slashes, so that the result
\* has no purely numeric segment.
C20_NumericSegmentsReplaced ==
    (call.fn = "NormalizePath" /\ call.nth = 1 /\ result.done) =>
        /\ ~\E i, j \in DOMAIN result.val : NumericSegment(result.val, i, j)
        /\ IndexOf(call.arg, "?") = 0 => result.val = Joined(Segments(call.arg), 1)

\* the getters that evaluate without error to a value that is not nil
Usable(values) == { i \in DOMAIN values : ~values[i].err /\ values[i].val # Nil }

\* C21: FirstNonNil returns, without error, the value of the leftmost getter
\* that evaluates without error and is not nil, having evaluated the getters
\* up to that one and no further; when every getter errors or yields nil it
\* returns nil, again without error.
C21_FirstNonNil ==
    (call.fn = "FirstNonNil" /\ result.done) =>
        /\ ~result.ret.err
        /\ IF Usable(call.arg) = {}
           THEN result.ret.val = Nil /\ result.ret.gets = Len(call.arg)
           ELSE \E i \in Usable(call.arg) :
                  /\ \A j \in Usable(call.arg) : i <= j
                  /\ result.ret.val = call.arg[i].val
                  /\ result.ret.gets = i

\* a getter that errors and one that yields nil come before the value returned
C21_Witness ==
    /\ call.fn = "FirstNonNil" /\ result.done
    /\ Len(call.arg) = 3
    /\ call.arg[1].err
    /\ ~call.arg[2].err /\ call.arg[2].val = Nil
    /\ result.ret.val = Str("first-choice")

\* the value a rule's operation_name, and its operation_type, evaluate to
NameValue(rule, span) == ValueEval(rule.OperationName, span)
TypeValue(rule, span) == ValueEval(rule.OperationType, span)

\* C22 (as claimed): when the applied rule's operation_name evaluates without
\* error to nil the operation name written is the empty string, and when its
\* operation_type evaluates without error to nil the rule counts as having no
\* type: operation_type_attribute is not written.
C22_NilIsEmptyString ==
    (Done /\ cfg.SpanProcessing.Mode \in {ModeEnrich, ModeEnforce}) =>
        \A p \in Positions(input) :
            Hit(p) # 0 =>
                /\ (~NameValue(HitRule(p), Before(p)).err /\ NameValue(HitRule(p), Before(p)).val = Nil) =>
                      After(p).attrs[OperationNameKey] = ""
                /\ ( /\ HitRule(p).OperationType # ""
                     /\ ~TypeValue(HitRule(p), Before(p)).err
                     /\ TypeValue(HitRule(p), Before(p)).val = Nil ) =>
                      Has(After(p), OperationTypeKey) = Has(Before(p), OperationTypeKey)

\* the evaluations of a rule's condition or operation_name that failed in the batch
FailedEvaluations ==
    { e \in Positions(input) \X DOMAIN compiledRules : FailsOn(e[2], Before(e[1])) }

\* C23 (as claimed): the errors counter (error_type=processing) has one
\* increment for every evaluation of a condition or an operation_name that
\* returned an error.
C23_ProcessingErrorsCounted ==
    (Done /\ Evaluating) => telemetry.errors = Cardinality(FailedEvaluations)

Unspecified(span) == span.kind = "SpanKindUnspecified"
Lists(rule, kindName) == \E a \in DOMAIN rule.SpanKind : rule.SpanKind[a] = kindName

\* C24 (as claimed): a rule applied to a span of kind unspecified has an empty
\* span_kind list.
C24_UnspecifiedOnlyUnfiltered ==
    (Done /\ Evaluating) =>
        \A p \in Positions(input) :
            (Unspecified(Before(p)) /\ Hit(p) # 0) => HitRule(p).SpanKind = << >>

\* a rule is open to spans of kind unspecified: it has no span_kind list, or
\* its list names "unspecified"
OpenToUnspecified(rule) == rule.SpanKind = << >> \/ Lists(rule, "unspecified")

\* C24 (amended): a span of kind unspecified is matched by the rules whose
\* span_kind list is empty or lists "unspecified", and by no other: the loop
\* stops on the first such rule whose condition and operation_name evaluate,
\* and leaves the span alone when there is none.
C24_UnspecifiedListedOrUnfiltered ==
    (Done /\ Evaluating) =>
        \A p \in Positions(input) :
            Unspecified(Before(p)) =>
                LET open == { k \in DOMAIN compiledRules :
                                /\ OpenToUnspecified(compiledRules[k])
                                /\ ConditionTrue(compiledRules[k], Before(p))
                                /\ ~ValueEval(compiledRules[k].OperationName, Before(p)).err }
                IN  IF open = {} THEN Hit(p) = 0 /\ After(p) = Before(p)
                    ELSE Hit(p) \in open /\ \A k \in open : Hit(p) <= k

\* a span of kind unspecified is named by a rule that lists "unspecified",
\* after a rule for server spans passed it over
C24_Witness ==
    /\ Done /\ Evaluating
    /\ \E p \in Positions(input) :
          /\ Unspecified(Before(p))
          /\ Hit(p) = 2
          /\ compiledRules[1].SpanKind = <<"server">>
          /\ Lists(HitRule(p), "unspecified")
          /\ Has(After(p), OperationNameKey)

\* a rule with an expression the parser does not accept
Unparsable(rule) ==
    \/ rule.Condition \notin ConditionExprs
    \/ rule.OperationName \notin ValueExprs
    \/ rule.OperationType # "" /\ rule.OperationType \notin ValueExprs

\* newSemconvProcessor was called
Started == phase # "config"

\* C25: when span processing is enabled and a rule has a condition, an
\* operation_name or a non-empty operation_type that does not parse,
\* newSemconvProcessor returns an error naming the first such rule and no
\* processor: no batch is ever processed, no rule is held.  A processor that
\* was built holds every rule of its configuration.
C25_CompileFailureFatal ==
    (Started /\ cfg.SpanProcessing.Enabled) =>
        IF \E i \in DOMAIN cfg.SpanProcessing.Rules : Unparsable(cfg.SpanProcessing.Rules[i])
        THEN /\ phase = "failed"
             /\ \E i \in DOMAIN cfg.SpanProcessing.Rules :
                   /\ Unparsable(cfg.SpanProcessing.Rules[i])
                   /\ \A j \in 1..(i - 1) : ~Unparsable(cfg.SpanProcessing.Rules[j])
                   /\ startupErr = cfg.SpanProcessing.Rules[i].ID
             /\ compiledRules = << >>
             /\ input = << >> /\ td = << >>
             /\ telemetry = Telemetry0
        ELSE /\ phase \in {"ready", "done"}
             /\ startupErr = ""
             /\ Len(compiledRules) = Len(cfg.SpanProcessing.Rules)

\* the second of two rules has an operation_type that does not parse
C25_Witness ==
    /\ phase = "failed"
    /\ Len(cfg.SpanProcessing.Rules) = 2
    /\ ~Unparsable(cfg.SpanProcessing.Rules[1])
    /\ cfg.SpanProcessing.Rules[2].Condition \in ConditionExprs
    /\ cfg.SpanProcessing.Rules[2].OperationName \in ValueExprs
    /\ startupErr = cfg.SpanProcessing.Rules[2].ID

\* the number of spans of a batch
SpanCount(b) == Cardinality(Positions(b))

\* C26: with enabled=true every call of processTraces adds the number of spans
\* of its batch to spans_processed and records one duration, whether or not
\* span processing is enabled and whatever happened to the spans; with
\* enabled=false no instrument is touched.  The counter starts at zero, so
\* after any sequence of batches it is the total number of their spans.
C26_SpansProcessedAccounting ==
    /\ [](phase \in {"config", "ready"} => telemetry = Telemetry0)
    /\ [][phase' = "done" =>
             IF cfg.Enabled
             THEN /\ telemetry'.spansProcessed = telemetry.spansProcessed + SpanCount(input')
                  /\ telemetry'.durationRecords = telemetry.durationRecords + 1
             ELSE telemetry' = telemetry]_vars

\* two batches, of one span and of two, went through a processor with span
\* processing switched off
C26_Witness ==
    /\ Done /\ cfg.Enabled /\ ~cfg.SpanProcessing.Enabled
    /\ SpanCount(input) = 2
    /\ telemetry.spansProcessed = 3
    /\ telemetry.durationRecords = 2

\* the operation type a rule produces for a span: "" when the rule has none or
\* its evaluation fails
ProducedType(rule, span) ==
    IF rule.OperationType = "" \/ TypeValue(rule, span).err
    THEN ""
    ELSE Sprintf(TypeValue(rule, span).val)

\* the label set span_names_enforced gets for a span of batch b that stopped on
\* rule number h
LabelOf(b, h, p) ==
    [rule_id |-> compiledRules[h[p[1]][p[2]][p[3]]].ID,
     operation_type |-> ProducedType(compiledRules[h[p[1]][p[2]][p[3]]], SpanAt(b, p)),
     mode |-> cfg.SpanProcessing.Mode]

\* the increments of span_names_enforced from number n + 1 on that carry label l
Added(labels, n, l) == { i \in (n + 1)..Len(labels) : labels[i] = l }

\* C27: a call of processTraces increments span_names_enforced once for each
\* span of the batch a rule was applied to, labelled with the rule's id, the
\* operation type produced and the configured mode, in enrich mode as in
\* enforce mode, and for no other span; the increments never outnumber
\* spans_processed.
C27_EnforcementCounting ==
    /\ [](Len(telemetry.spanNamesEnforced) <= telemetry.spansProcessed)
    /\ [][phase' = "done" =>
            LET applied == { p \in Positions(input') : hits'[p[1]][p[2]][p[3]] # 0 }
            IN  /\ Len(telemetry'.spanNamesEnforced)
                      = Len(telemetry.spanNamesEnforced) + Cardinality(applied)
                /\ \A p \in applied :
                      Cardinality(Added(telemetry'.spanNamesEnforced,
                                        Len(telemetry.spanNamesEnforced),
                                        LabelOf(input', hits', p)))
                        = Cardinality({ q \in applied :
                                          LabelOf(input', hits', q) = LabelOf(input', hits', p) })
                /\ SubSeq(telemetry'.spanNamesEnforced, 1, Len(telemetry.spanNamesEnforced))
                      = telemetry.spanNamesEnforced ]_vars

\* in enrich mode, a batch of a span that a rule with an operation type was
\* applied to and a span that was skipped
C27_Witness ==
    /\ Done /\ cfg.SpanProcessing.Mode = ModeEnrich
    /\ SpanCount(input) = 2
    /\ \E p, q \in Positions(input) :
          /\ Hit(p) # 0 /\ Hit(q) = 0
          /\ Has(Before(q), OperationNameKey)
          /\ telemetry.spanNamesEnforced = << LabelOf(input, hits, p) >>
          /\ LabelOf(input, hits, p).operation_type # ""
          /\ LabelOf(input, hits, p).mode = "enrich"
    /\ telemetry.spansProcessed = 2

\* the count a tracker map holds for a name
CountOf(m, name) == IF name \in DOMAIN m THEN m[name] ELSE 0

\* the spans of batch b that arrived with the given name
Arrived(b, name) == { p \in Positions(b) : SpanAt(b, p).name = name }

\* C28: with benchmark=true and span processing enabled, a call of
\* processTraces adds to the original-names map, for every name, the number of
\* spans of the batch that arrived with it, whether a rule was applied, none
\* matched or the span was skipped; so the counts of the original-names map
\* sum to the number of spans evaluated, which is at least the sum of the
\* counts of the operations map.
C28_OriginalNameObservation ==
    /\ [](Built =>
            /\ Total(spanNameCount, DOMAIN spanNameCount) = telemetry.spansProcessed
            /\ Total(spanNameCount, DOMAIN spanNameCount)
                  >= Total(operationCount, DOMAIN operationCount))
    /\ [][phase' = "done" =>
            /\ DOMAIN spanNameCount' = DOMAIN spanNameCount \cup NamesOf(input')
            /\ \A name \in DOMAIN spanNameCount' :
                  spanNameCount'[name]
                    = CountOf(spanNameCount, name) + Cardinality(Arrived(input', name)) ]_vars

\* in enforce mode, a batch of a span that was renamed and a span that was
\* skipped: both are counted under the names they arrived with
C28_Witness ==
    /\ Done /\ cfg.SpanProcessing.Mode = ModeEnforce
    /\ telemetry.durationRecords = 1
    /\ \E p, q \in Positions(input) :
          /\ Hit(p) # 0 /\ Before(p).name = "x" /\ After(p).name # "x"
          /\ Hit(q) = 0 /\ Has(Before(q), OperationNameKey) /\ Before(q).name = "A"
    /\ DOMAIN spanNameCount = {"A", "x"}
    /\ spanNameCount["x"] = 1 /\ spanNameCount["A"] = 1
    /\ Total(operationCount, DOMAIN operationCount) = 1

\* C29: processTraces called on the batch it returned gives that batch back
\* with every span's name and attributes as they were; with a configuration
\* that passed Validate no span stops on a rule the second time: those a rule
\* was applied to are skipped, the others match no rule again.
C29_ReprocessingIsNoOp ==
    [][phase' = "redone" =>
          /\ input' = td
          /\ Positions(td') = Positions(input')
          /\ \A p \in Positions(input') :
                /\ SpanAt(td', p).name = SpanAt(input', p).name
                /\ SpanAt(td', p).attrs = SpanAt(input', p).attrs
                /\ validated = "ok" => hits'[p[1]][p[2]][p[3]] = 0 ]_vars

\* a validated processor saw a batch twice: one span had a rule applied the
\* first time and is skipped the second time, the other matches no rule
C29_Witness ==
    /\ phase = "redone" /\ validated = "ok"
    /\ cfg.SpanProcessing.Mode = ModeEnforce
    /\ telemetry.durationRecords = 2
    /\ Len(telemetry.spanNamesEnforced) = 1
    /\ SpanCount(input) = 2
    /\ \E p, q \in Positions(input) :
          /\ Has(Before(p), OperationNameKey)
          /\ Before(p).attrs[OperationNameKey] = Before(p).name
          /\ After(p) = Before(p)
          /\ ~Has(Before(q), OperationNameKey)
          /\ After(q) = Before(q)

\* C30 (as claimed): whatever mode the processor was constructed with, a span
\* that stopped the rule loop on a matched rule carries
\* operation_name_attribute equal to the name the rule produced, and every
\* name the batch added to the operations map was written to a span of it.
C30_MatchImpliesApplication ==
    Done =>
        /\ \A p \in Positions(input) :
              Hit(p) # 0 =>
                  /\ Has(After(p), OperationNameKey)
                  /\ After(p).attrs[OperationNameKey] = ProducedName(HitRule(p), Before(p))
        /\ (telemetry.durationRecords = 1) =>
              \A name \in DOMAIN operationCount :
                  \E p \in Positions(input) :
                      /\ Has(After(p), OperationNameKey)
                      /\ After(p).attrs[OperationNameKey] = name

====
